---- MODULE Spec2Model ----
(***************************************************************************)
(* State-lifecycle model of the tabbed UI: Tabbed (the container holding   *)
(* activeTab), TabContent (the panel holding showDetails and likes and the *)
(* deferred undo), DifferentContent and Tab.  React's part is modelled as  *)
(* far as the components rely on it: one child slot reconciled by type and *)
(* key, state updates queued by a handler and applied in order by the      *)
(* render that follows it, setState on an unmounted instance ignored.      *)
(***************************************************************************)
EXTENDS Integers, Sequences, FiniteSets

\* ------------------------------------------------------------------ bounds
MaxLikes == 5
MaxTimers == 2

\* ------------------------------------------------------- program constants
\* activeTab <= 2: the tabs 0..2 address content, the last tab does not.
LastContentTab == 2
\* <Tab num={3} .../> is the last of the four tabs.
LastTab == 3

\* ------------------------------------------------------------ input values
SummaryNames == <<"A", "B", "C">>
Summaries == {SummaryNames[k] : k \in 1..Len(SummaryNames)}
Details == {"d"}

ContentItem == [summary : Summaries, details : Details]

RECURSIVE SeqsUpTo(_, _)
SeqsUpTo(S, n) ==
    IF n = 0 THEN {<<>>}
    ELSE LET shorter == SeqsUpTo(S, n - 1)
         IN  shorter \cup {Append(s, x) : s \in {t \in shorter : Len(t) = n - 1}, x \in S}

Rank(s) == CHOOSE k \in 1..Len(SummaryNames) : SummaryNames[k] = s

\* Summaries are only ever compared for equality, so one list stands for
\* all lists with the same pattern of equal summaries: a record's summary
\* is one used before it or the first name not used yet.
FirstUse(c) ==
    \A i \in 1..Len(c) :
        \/ Rank(c[i].summary) = 1
        \/ \E j \in 1..(i - 1) : Rank(c[j].summary) >= Rank(c[i].summary) - 1

\* Tabbed reads content.at(i) for i <= 2 only: records past the third are
\* never looked at.
Contents == {c \in SeqsUpTo(ContentItem, LastContentTab + 1) : FirstUse(c)}

\* An optional value: <<>> is undefined, <<x>> is the value x.
Undefined == <<>>
Some(x) == <<x>>

VARIABLES
    content,    \* the content prop of Tabbed
    useKey,     \* TRUE: Tabbed passes key={currentItem.summary}; FALSE: the keyless Tabbed
    activeTab,  \* Tabbed's state
    panel,      \* what is mounted in the slot below the tabs
    timers,     \* pending setTimeout(handleUndo, 2000) callbacks, oldest first
    threw,      \* a render or a callback raised an error
    lastOp,     \* the event handled last: op, and arg = the tab that was active
                \* before a tab click (num = the tab clicked), or the likes a
                \* clicked handler logged
    sinceMount  \* the state of a TabContent that was mounted when the mounted
                \* one was, on a page where nothing had happened before, and
                \* that has been clicked as the mounted one has been since

vars == <<content, useKey, activeTab, panel, timers, threw, lastOp, sinceMount>>

\* --------------------------------------------------------------- Tabbed
\* Mutant: an index past the end wraps around to a record.
AtWrapping(c, i) == IF Len(c) = 0 THEN Undefined ELSE Some(c[(i % Len(c)) + 1])

\* content.at(i) for i >= 0: the record at i, undefined past the end.
At(c, i) == IF i < Len(c) THEN Some(c[i + 1]) ELSE Undefined

\* const currentItem = activeTab <= 2 ? content.at(activeTab) : undefined;
currentItem(c, tab) == IF tab <= LastContentTab THEN At(c, tab) ELSE Undefined

\* Mutant: the tab compares with the number of its label.
TabClassNameByLabel(num, active) == IF active = num + 1 THEN "tab active" ELSE "tab"

\* Tab: className={activeTab === num ? "tab active" : "tab"}
TabClassName(num, active) == IF active = num THEN "tab active" ELSE "tab"

\* The tabs Tabbed renders.
TabNums == 0..LastTab

NoElement == [type |-> "null"]
DifferentContent == [type |-> "DifferentContent"]
TabContentElement(item, key) == [type |-> "TabContent", key |-> key, item |-> item]

\* Mutant: the key prop is left out.
TabbedKeyedNoKey(c, tab) ==
    IF tab <= LastContentTab
    THEN IF currentItem(c, tab) # Undefined
         THEN TabContentElement(currentItem(c, tab), Undefined)
         ELSE NoElement
    ELSE DifferentContent

\* Mutant: a missing record is passed on to TabContent.
TabbedKeyedNoGuard(c, tab) ==
    IF tab <= LastContentTab
    THEN TabContentElement(currentItem(c, tab),
                           IF currentItem(c, tab) # Undefined
                           THEN Some(currentItem(c, tab)[1].summary) ELSE Undefined)
    ELSE DifferentContent

\* Mutant: the key is the tab index, not the summary.
TabbedKeyedByIndex(c, tab) ==
    IF tab <= LastContentTab
    THEN IF currentItem(c, tab) # Undefined
         THEN TabContentElement(currentItem(c, tab), Some(tab))
         ELSE NoElement
    ELSE DifferentContent

\* The element Tabbed returns below the tabs, with the key-passing Tabbed.
TabbedKeyed(c, tab) ==
    IF tab <= LastContentTab
    THEN IF currentItem(c, tab) # Undefined
         THEN TabContentElement(currentItem(c, tab), Some(currentItem(c, tab)[1].summary))
         ELSE NoElement
    ELSE DifferentContent

\* Mutant: the keyless Tabbed gets the tab index as key.
TabbedKeylessByIndex(c, tab) ==
    IF tab <= LastContentTab
    THEN TabContentElement(At(c, tab), Some(tab))
    ELSE DifferentContent

\* The same with the Tabbed that passes no key.
TabbedKeyless(c, tab) ==
    IF tab <= LastContentTab
    THEN TabContentElement(At(c, tab), Undefined)
    ELSE DifferentContent

\* Mutant: the keyless Tabbed is rendered in any case.
TabbedAlwaysKeyless(c, tab, keyed) == TabbedKeyless(c, tab)

Tabbed(c, tab, keyed) == IF keyed THEN TabbedKeyed(c, tab) ELSE TabbedKeyless(c, tab)

\* ------------------------------------------------------ TabContent state
IsPanel(p) == p.type = "TabContent"

\* Instance identities still referred to by the mounted panel or by a timer.
UsedIds == (IF IsPanel(panel) THEN {panel.id} ELSE {})
           \cup {timers[k].inst : k \in 1..Len(timers)}

\* Mutant: an identity is used again while a timer that refers to it waits.
FreshIdOfPanel == IF IsPanel(panel) /\ panel.id = 0 THEN 1 ELSE 0

FreshId ==
    CHOOSE i \in 0..(Len(timers) + 1) :
        /\ i \notin UsedIds
        /\ \A j \in 0..(Len(timers) + 1) : j \notin UsedIds => i <= j

\* useState(true), useState(0) on mount.
Mount(el, id) ==
    [type |-> "TabContent", key |-> el.key, item |-> el.item, id |-> id,
     showDetails |-> TRUE, likes |-> 0]

\* Mutant: the key is not compared.
ReconcileByType(old, el, id) ==
    IF el.type = "TabContent"
    THEN IF IsPanel(old)
         THEN [old EXCEPT !.item = el.item, !.key = el.key]
         ELSE Mount(el, id)
    ELSE el

\* Mutant: an instance replaced by another type is kept and comes back.
ReconcileKeepAlive(old, el, id) ==
    IF el.type = "TabContent"
    THEN IF IsPanel(old) /\ old.key = el.key
         THEN [old EXCEPT !.item = el.item]
         ELSE Mount(el, id)
    ELSE IF IsPanel(old) THEN old ELSE el

\* One child slot: the instance is kept when type and key are equal,
\* otherwise the old one is unmounted and the new element mounted.
Reconcile(old, el, id) ==
    IF el.type = "TabContent"
    THEN IF IsPanel(old) /\ old.key = el.key
         THEN [old EXCEPT !.item = el.item]
         ELSE Mount(el, id)
    ELSE el

\* State updates as the handlers request them: a new value, or a function
\* of the value the queue has reached.
IncLikes == [op |-> "incLikes"]
SetLikes(n) == [op |-> "setLikes", n |-> n]
NotShowDetails == [op |-> "notShowDetails"]
SetShowDetails(b) == [op |-> "setShowDetails", b |-> b]

\* Mutant: the updater function of the increments subtracts.
ApplyUpdateMinus(p, u) ==
    CASE u.op = "incLikes" -> [p EXCEPT !.likes = @ - 1]
      [] u.op = "setLikes" -> [p EXCEPT !.likes = u.n]
      [] u.op = "notShowDetails" -> [p EXCEPT !.showDetails = ~@]
      [] u.op = "setShowDetails" -> [p EXCEPT !.showDetails = u.b]

ApplyUpdate(p, u) ==
    CASE u.op = "incLikes" -> [p EXCEPT !.likes = @ + 1]
      [] u.op = "setLikes" -> [p EXCEPT !.likes = u.n]
      [] u.op = "notShowDetails" -> [p EXCEPT !.showDetails = ~@]
      [] u.op = "setShowDetails" -> [p EXCEPT !.showDetails = u.b]

\* Mutant: a render starts from the initial values again.
RECURSIVE RenderFromInitial(_, _)
RenderFromInitial(p, queue) ==
    IF queue = <<>> THEN [p EXCEPT !.showDetails = TRUE, !.likes = 0]
    ELSE ApplyUpdate(RenderFromInitial(p, SubSeq(queue, 1, Len(queue) - 1)),
                     queue[Len(queue)])

\* Mutant: a render commits after the first queued update.
RenderFirstOnly(p, queue) ==
    IF queue = <<>> THEN p ELSE ApplyUpdate(p, Head(queue))

\* The render after an event applies the queued updates in order to the
\* state of the instance.
RECURSIVE Render(_, _)
Render(p, queue) ==
    IF queue = <<>> THEN p
    ELSE Render(ApplyUpdate(p, Head(queue)), Tail(queue))

\* Mutant: the three requests set the value computed from this render's likes.
handleTripleIncCaptured(likes) == <<SetLikes(likes + 1), SetLikes(likes + 1), SetLikes(likes + 1)>>

\* Mutants: one of the two requests of handleUndo is missing.
handleUndoLikesOnly == <<SetLikes(0)>>
handleUndoDetailsOnly == <<SetShowDetails(TRUE)>>

\* Mutant: a click on "+" requests the increment twice.
handleIncTwice(likes) == <<IncLikes, IncLikes>>

\* Mutant: the details button only hides.
toggleHideOnly == <<SetShowDetails(FALSE)>>

\* Mutant: undo flips the details instead of showing them.
handleUndoFlips == <<NotShowDetails, SetLikes(0)>>

\* The form commented out in handleTripleInc: setLikes(likes + 1), three
\* times, with the likes of the render the handler was created in.
handleTripleIncByValue(likes) ==
    <<SetLikes(likes + 1), SetLikes(likes + 1), SetLikes(likes + 1)>>

\* The update requests of each handler; likes is the value of the render
\* the handler was created in.
handleIncUpdates(likes) == <<IncLikes>>
handleTripleIncUpdates(likes) == <<IncLikes, IncLikes, IncLikes>>
handleUndoUpdates == <<SetShowDetails(TRUE), SetLikes(0)>>
toggleUpdates == <<NotShowDetails>>

\* Mutant: the "if (!item) return null" guard is missing, and item.summary
\* of an undefined item is read.
TabContentOutputNoGuard(p) ==
    IF p.item = Undefined
    THEN [tag |-> "TypeError"]
    ELSE [tag |-> "div", summary |-> p.item[1].summary,
          details |-> IF p.showDetails THEN Some(p.item[1].details) ELSE Undefined,
          likes |-> p.likes]

\* What TabContent returns: null without an item, else the panel with the
\* summary, the details when shown, the likes and the buttons.
TabContentOutput(p) ==
    IF p.item = Undefined
    THEN [tag |-> "null"]
    ELSE [tag |-> "div", summary |-> p.item[1].summary,
          details |-> IF p.showDetails THEN Some(p.item[1].details) ELSE Undefined,
          likes |-> p.likes]

\* item.summary is read from an undefined item.
RenderRaises(p) ==
    IsPanel(p) /\ p.item = Undefined /\ TabContentOutput(p).tag # "null"

ButtonsShown == IsPanel(panel) /\ TabContentOutput(panel).tag = "div"

\* A TabContent on its own: useState(true), useState(0) and no timer set
\* when it is mounted; pending counts the timers it has set that wait.
NotMounted == [pending |-> 0]
MountedAlone == [showDetails |-> TRUE, likes |-> 0, pending |-> 0]
Alone(p) == IF IsPanel(p) THEN MountedAlone ELSE NotMounted

\* It is mounted anew whenever the slot gets another instance.
AloneAfterSelect ==
    sinceMount' = IF IsPanel(panel) /\ IsPanel(panel') /\ panel'.id = panel.id
                  THEN sinceMount
                  ELSE Alone(panel')

\* Timers fire oldest first: the one that fires is one of its own when no
\* more timers wait than it has set.
AloneAfterTimer ==
    sinceMount' = IF Len(timers) <= sinceMount.pending
                  THEN [Render(sinceMount, handleUndoUpdates) EXCEPT !.pending = @ - 1]
                  ELSE sinceMount

\* ------------------------------------------------------------------ Init
\* The first render of Tabbed, with the key-passing Tabbed or the keyless.
InitWith(keyed) ==
    /\ content \in Contents
    /\ useKey = keyed
    /\ activeTab = 0
    /\ panel = Reconcile(NoElement, Tabbed(content, 0, useKey), 0)
    /\ timers = <<>>
    /\ threw = RenderRaises(panel)
    /\ lastOp = [op |-> "init", arg |-> 0]
    /\ sinceMount = Alone(panel)

Init == InitWith(TRUE)

\* The keyless Tabbed.
InitKeyless == InitWith(FALSE)

\* Either version of Tabbed.
InitAnyTabbed == \E keyed \in BOOLEAN : InitWith(keyed)

\* --------------------------------------------------------------- actions
\* Mutant: the tab reports the number of its label, "Tab {num + 1}".
SelectTabByLabel(n) ==
    /\ activeTab' = n + 1
    /\ panel' = Reconcile(panel, Tabbed(content, n + 1, useKey), FreshId)
    /\ threw' = (threw \/ RenderRaises(panel'))
    /\ lastOp' = [op |-> "select", arg |-> activeTab, num |-> n]
    /\ AloneAfterSelect
    /\ UNCHANGED <<content, useKey, timers>>

\* Mutant: the pending timers are cleared when the panel is replaced.
SelectTabClearsTimers(n) ==
    /\ activeTab' = n
    /\ panel' = IF n = activeTab THEN panel
                ELSE Reconcile(panel, Tabbed(content, n, useKey), FreshId)
    /\ timers' = IF IsPanel(panel) /\ IsPanel(panel') /\ panel'.id = panel.id
                 THEN timers ELSE <<>>
    /\ threw' = (threw \/ RenderRaises(panel'))
    /\ lastOp' = [op |-> "select", arg |-> activeTab, num |-> n]
    /\ AloneAfterSelect
    /\ UNCHANGED <<content, useKey>>

\* Mutant: every click on a tab mounts the content anew.
SelectTabRemounts(n) ==
    /\ activeTab' = n
    /\ panel' = Reconcile(NoElement, Tabbed(content, n, useKey), FreshId)
    /\ threw' = (threw \/ RenderRaises(panel'))
    /\ lastOp' = [op |-> "select", arg |-> activeTab, num |-> n]
    /\ AloneAfterSelect
    /\ UNCHANGED <<content, useKey, timers>>

\* <Tab num={n} onClick={setActiveTab} />: onClick(num) is setActiveTab(n),
\* and Tabbed renders again unless n is the active tab already.
SelectTab(n) ==
    /\ activeTab' = n
    /\ panel' = IF n = activeTab THEN panel
                ELSE Reconcile(panel, Tabbed(content, n, useKey), FreshId)
    /\ threw' = (threw \/ RenderRaises(panel'))
    /\ lastOp' = [op |-> "select", arg |-> activeTab, num |-> n]
    /\ AloneAfterSelect
    /\ UNCHANGED <<content, useKey, timers>>

\* onClick={() => setShowDetails((h) => !h)}
ToggleDetails ==
    /\ ButtonsShown
    /\ panel' = Render(panel, toggleUpdates)
    /\ sinceMount' = Render(sinceMount, toggleUpdates)
    /\ lastOp' = [op |-> "toggle", arg |-> 0]
    /\ UNCHANGED <<content, useKey, activeTab, timers, threw>>

HandleInc ==
    /\ ButtonsShown
    /\ panel.likes + 1 <= MaxLikes
    /\ panel' = Render(panel, handleIncUpdates(panel.likes))
    /\ sinceMount' = Render(sinceMount, handleIncUpdates(panel.likes))
    /\ lastOp' = [op |-> "inc", arg |-> 0]
    /\ UNCHANGED <<content, useKey, activeTab, timers, threw>>

\* Mutant: the log shows the likes the requests lead to.
HandleTripleIncLogsNew ==
    /\ ButtonsShown
    /\ panel.likes + 3 <= MaxLikes
    /\ panel' = Render(panel, handleTripleIncUpdates(panel.likes))
    /\ sinceMount' = Render(sinceMount, handleTripleIncUpdates(panel.likes))
    /\ lastOp' = [op |-> "tripleInc", arg |-> panel'.likes]
    /\ UNCHANGED <<content, useKey, activeTab, timers, threw>>

\* The three requests are queued, likes is logged as this render has it,
\* then the render applies the queue.
HandleTripleInc ==
    /\ ButtonsShown
    /\ panel.likes + 3 <= MaxLikes
    /\ panel' = Render(panel, handleTripleIncUpdates(panel.likes))
    /\ sinceMount' = Render(sinceMount, handleTripleIncUpdates(panel.likes))
    /\ lastOp' = [op |-> "tripleInc", arg |-> panel.likes]
    /\ UNCHANGED <<content, useKey, activeTab, timers, threw>>

\* Mutant: undo also goes back to the first tab.
HandleUndoFirstTab ==
    /\ ButtonsShown
    /\ activeTab' = 0
    /\ panel' = Render(panel, handleUndoUpdates)
    /\ sinceMount' = Render(sinceMount, handleUndoUpdates)
    /\ lastOp' = [op |-> "undo", arg |-> panel.likes]
    /\ UNCHANGED <<content, useKey, timers, threw>>

HandleUndo ==
    /\ ButtonsShown
    /\ panel' = Render(panel, handleUndoUpdates)
    /\ sinceMount' = Render(sinceMount, handleUndoUpdates)
    /\ lastOp' = [op |-> "undo", arg |-> panel.likes]
    /\ UNCHANGED <<content, useKey, activeTab, timers, threw>>

\* setTimeout(handleUndo, 2000): the callback holds the setters of the
\* instance that was clicked.  Nothing changes until it fires.
HandleUndoLater ==
    /\ ButtonsShown
    /\ Len(timers) < MaxTimers
    /\ timers' = Append(timers, [inst |-> panel.id])
    /\ sinceMount' = [sinceMount EXCEPT !.pending = @ + 1]
    /\ lastOp' = [op |-> "undoLater", arg |-> 0]
    /\ UNCHANGED <<content, useKey, activeTab, panel, threw>>

\* Mutant: the callback acts on whichever instance is mounted.
TimerFireOnMounted ==
    /\ timers # <<>>
    /\ LET t == Head(timers)
           mounted == IsPanel(panel) /\ panel.id = t.inst
       IN  /\ panel' = IF IsPanel(panel) THEN Render(panel, handleUndoUpdates) ELSE panel
           /\ lastOp' = [op |-> IF mounted THEN "timer" ELSE "timerUnmounted", arg |-> 0]
    /\ timers' = Tail(timers)
    /\ AloneAfterTimer
    /\ UNCHANGED <<content, useKey, activeTab, threw>>

\* The oldest timer fires (equal delays fire in the order they were set)
\* and runs handleUndo.  Updates requested on an instance that is no longer
\* mounted are ignored.
TimerFire ==
    /\ timers # <<>>
    /\ LET t == Head(timers)
           mounted == IsPanel(panel) /\ panel.id = t.inst
       IN  /\ panel' = IF mounted THEN Render(panel, handleUndoUpdates) ELSE panel
           /\ lastOp' = [op |-> IF mounted THEN "timer" ELSE "timerUnmounted", arg |-> 0]
    /\ timers' = Tail(timers)
    /\ AloneAfterTimer
    /\ UNCHANGED <<content, useKey, activeTab, threw>>

Next ==
    \/ \E n \in 0..LastTab : SelectTab(n)
    \/ ToggleDetails
    \/ HandleInc
    \/ HandleTripleInc
    \/ HandleUndo
    \/ HandleUndoLater
    \/ TimerFire

Spec == Init /\ [][Next]_vars

SpecAnyTabbed == InitAnyTabbed /\ [][Next]_vars

SpecKeyless == InitKeyless /\ [][Next]_vars

\* A timer that was set fires: setTimeout runs its callback once the delay
\* has passed, and nothing in the code clears a timer.
SpecTimersFire == Spec /\ WF_vars(TimerFire)

\* ---------------------------------------------------------------- claims
Initial(p) == p.showDetails /\ p.likes = 0
HasRecord(tab) == tab <= LastContentTab /\ tab < Len(content)
TabSwitch == lastOp.op = "select" /\ lastOp.arg # activeTab

\* C1: when Tabbed renders again for another tab, the TabContent instance
\* and its (showDetails, likes) are kept if and only if the element before
\* and the element after are both TabContent with the same key; otherwise a
\* TabContent mounted by that render is a new instance in state (true, 0)
\* that no pending timer refers to.
C1_IdentityDecidesCarryOver ==
    [][activeTab' # activeTab =>
        LET elOld == Tabbed(content, activeTab, useKey)
            elNew == Tabbed(content, activeTab', useKey)
            same == /\ elOld.type = "TabContent"
                    /\ elNew.type = "TabContent"
                    /\ elOld.key = elNew.key
        IN  /\ same => /\ IsPanel(panel) /\ IsPanel(panel')
                       /\ panel'.id = panel.id
                       /\ panel'.showDetails = panel.showDetails
                       /\ panel'.likes = panel.likes
            /\ (~same /\ IsPanel(panel')) =>
                       /\ Initial(panel')
                       /\ IsPanel(panel) => panel'.id # panel.id
                       /\ \A k \in 1..Len(timers') : timers'[k].inst # panel'.id
    ]_vars

\* C1 witness: a switch to another tab with an equal key has kept a panel
\* that is not in its initial state.
C1_Witness ==
    /\ TabSwitch
    /\ IsPanel(panel)
    /\ panel.likes = 3
    /\ ~panel.showDetails

\* C2: after a click that switches between two content tabs whose records
\* have different summaries, the panel shows the new record in state
\* (true, 0), whatever was done on the tab before.
C2_ResetOnSwitch ==
    (/\ TabSwitch
     /\ HasRecord(lastOp.arg) /\ HasRecord(activeTab)
     /\ content[lastOp.arg + 1].summary # content[activeTab + 1].summary)
    => /\ IsPanel(panel)
       /\ Initial(panel)
       /\ panel.item = Some(content[activeTab + 1])

\* C2 witness: back on tab 0 from tab 1, with one deferred undo of the
\* first instance of tab 0 and one of the instance of tab 1 still pending.
C2_Witness ==
    /\ TabSwitch /\ lastOp.arg = 1 /\ activeTab = 0
    /\ HasRecord(0) /\ HasRecord(1)
    /\ content[1].summary # content[2].summary
    /\ Len(timers) = 2
    /\ timers[1].inst # timers[2].inst
    /\ IsPanel(panel) /\ Initial(panel)

\* C3: no TabContent is mounted while the last tab is active, and a click
\* from the last tab to a content tab that has a record mounts a panel in
\* state (true, 0), also when its key is the one the panel had before.
C3_TypeSwitchReset ==
    /\ activeTab > LastContentTab => ~IsPanel(panel)
    /\ (TabSwitch /\ lastOp.arg > LastContentTab /\ HasRecord(activeTab))
       => IsPanel(panel) /\ Initial(panel)

\* C3 witness: back on tab 0 from the last tab while a deferred undo set
\* before the last tab was shown is still pending.
C3_Witness ==
    /\ TabSwitch /\ lastOp.arg = LastTab /\ activeTab = 0
    /\ IsPanel(panel) /\ Initial(panel)
    /\ timers # <<>>

\* C4: one click on "+++" with likes = k leaves likes = k + 3 and
\* showDetails as it was, on the same instance.
C4_TripleIncAddsThree ==
    [][lastOp'.op = "tripleInc" =>
        /\ IsPanel(panel) /\ IsPanel(panel')
        /\ panel'.likes = panel.likes + 3
        /\ panel'.showDetails = panel.showDetails
        /\ panel'.id = panel.id
    ]_vars

\* C4 witness: "+++" clicked at likes = 0 with the details hidden.
C4_Witness ==
    /\ lastOp.op = "tripleInc" /\ lastOp.arg = 0
    /\ IsPanel(panel) /\ panel.likes = 3 /\ ~panel.showDetails

C6_DeferredUndoResets ==
    lastOp.op = "timer" => IsPanel(panel) /\ Initial(panel)

\* C6 witness: a deferred undo has fired on the mounted instance while
\* another one of the same instance is pending.
C6_Witness ==
    /\ lastOp.op = "timer"
    /\ IsPanel(panel) /\ Initial(panel)
    /\ timers # <<>> /\ timers[1].inst = panel.id

\* C7: a deferred undo that fires after its instance was unmounted raises
\* nothing and changes neither activeTab nor what is mounted.
C7_TimerAfterUnmountNoOp ==
    [][lastOp'.op = "timerUnmounted" =>
        /\ activeTab' = activeTab
        /\ panel' = panel
        /\ ~threw'
    ]_vars

\* C7 witness: such a timer has fired while another instance with likes
\* and hidden details is mounted.
C7_Witness ==
    /\ lastOp.op = "timerUnmounted"
    /\ IsPanel(panel) /\ panel.likes = 2 /\ ~panel.showDetails

\* C8: the toggle and the two increments keep the instance; the toggle
\* flips showDetails and keeps likes, the increments raise likes and keep
\* showDetails.  likes decreases only by an undo, a deferred undo firing or
\* a tab switch that mounts a new instance, and showDetails goes from
\* false to true only by those or by the toggle flipping it.
C8_NoResetOnRerender ==
    [][(IsPanel(panel) /\ IsPanel(panel')) =>
        /\ lastOp'.op = "toggle" =>
              /\ panel'.id = panel.id
              /\ panel'.likes = panel.likes
              /\ panel'.showDetails = ~panel.showDetails
        /\ lastOp'.op \in {"inc", "tripleInc"} =>
              /\ panel'.id = panel.id
              /\ panel'.likes > panel.likes
              /\ panel'.showDetails = panel.showDetails
        /\ panel'.likes < panel.likes =>
              \/ lastOp'.op \in {"undo", "timer"}
              \/ lastOp'.op = "select" /\ panel'.id # panel.id
        /\ (panel'.showDetails /\ ~panel.showDetails) =>
              \/ lastOp'.op \in {"toggle", "undo", "timer"}
              \/ lastOp'.op = "select" /\ panel'.id # panel.id
    ]_vars

\* C8 witness: the details toggled off after four likes.
C8_Witness ==
    /\ lastOp.op = "toggle"
    /\ IsPanel(panel) /\ panel.likes = 4 /\ ~panel.showDetails

SlotEmpty ==
    \/ panel = NoElement
    \/ IsPanel(panel) /\ TabContentOutput(panel).tag = "null"

\* C11: with either Tabbed, no render raises; with an empty content list
\* nothing is shown below the tabs on a content tab; a TabContent without
\* item returns null.
C11_EmptyContentSafe ==
    /\ ~threw
    /\ (Len(content) = 0 /\ activeTab <= LastContentTab) => SlotEmpty
    /\ (IsPanel(panel) /\ panel.item = Undefined) => TabContentOutput(panel).tag = "null"

\* C11 witness: the keyless Tabbed with an empty list after a click on the
\* second tab: a TabContent without item is mounted.
C11_Witness ==
    /\ ~useKey /\ Len(content) = 0
    /\ TabSwitch /\ activeTab = 1
    /\ IsPanel(panel) /\ panel.item = Undefined

C13_ActiveTabRange ==
    /\ activeTab \in 0..LastTab
    /\ lastOp.op = "init" =>
          /\ activeTab = 0
          /\ HasRecord(0) =>
                /\ IsPanel(panel) /\ Initial(panel)
                /\ panel.item = Some(content[1])

\* C13 witness: the last tab clicked from the third.
C13_Witness ==
    /\ lastOp.op = "select" /\ lastOp.arg = LastContentTab
    /\ activeTab = LastTab

\* C14: likes of the mounted panel is never negative.
C14_LikesNotNegative ==
    IsPanel(panel) => panel.likes >= 0

\* C14 witness: "Undo" clicked at likes = 0 while two deferred undos are
\* pending.
C14_Witness ==
    /\ lastOp.op = "undo" /\ lastOp.arg = 0
    /\ IsPanel(panel) /\ panel.likes = 0
    /\ Len(timers) = 2

\* C15: a switch between two content tabs whose records have the same
\* summary keeps the instance with its showDetails and likes, and gives it
\* the new record.
C15_EqualSummariesKeepState ==
    [][(/\ activeTab' # activeTab
        /\ HasRecord(activeTab) /\ HasRecord(activeTab')
        /\ content[activeTab + 1].summary = content[activeTab' + 1].summary)
       => /\ IsPanel(panel) /\ IsPanel(panel')
          /\ panel'.id = panel.id
          /\ panel'.showDetails = panel.showDetails
          /\ panel'.likes = panel.likes
          /\ panel'.item = Some(content[activeTab' + 1])
    ]_vars

\* C15 witness: after a switch from the first to the third tab, which
\* have equal summaries, the panel has two likes and hidden details.
C15_Witness ==
    /\ TabSwitch /\ lastOp.arg = 0 /\ activeTab = 2
    /\ HasRecord(2)
    /\ content[1].summary = content[3].summary
    /\ IsPanel(panel) /\ panel.likes = 2 /\ ~panel.showDetails

\* C16: a "+++" click commits likes + 3 and no value in between; a "+++"
\* click right after a deferred undo fired on the instance leaves likes = 3,
\* a deferred undo firing right after a "+++" click leaves likes = 0.
C16_TripleIncAtomic ==
    [][/\ lastOp'.op = "tripleInc" =>
            /\ panel'.likes # panel.likes + 1
            /\ panel'.likes # panel.likes + 2
            /\ panel'.likes = lastOp'.arg + 3
       /\ (lastOp.op = "timer" /\ lastOp'.op = "tripleInc") => panel'.likes = 3
       /\ (lastOp.op = "tripleInc" /\ lastOp'.op = "timer") => panel'.likes = 0
    ]_vars

\* C16 witness: "+++" clicked at likes = 0 while a deferred undo of the
\* instance is pending.
C16_Witness ==
    /\ lastOp.op = "tripleInc"
    /\ IsPanel(panel) /\ panel.likes = 3
    /\ timers # <<>> /\ timers[1].inst = panel.id

\* C17: a click on "Undo in 2s" changes neither the panel nor activeTab and
\* adds exactly one timer of the clicked instance behind the pending ones;
\* a timer leaves the pending ones only by firing, oldest first, so n
\* clicks give n firings; and unless no timer is pending again and again,
\* a timer fires again and again, so every pending timer gets to fire.
C17_DeferredUndoSchedules ==
    /\ [][(lastOp'.op = "undoLater" =>
               /\ IsPanel(panel)
               /\ panel' = panel
               /\ activeTab' = activeTab
               /\ timers' = Append(timers, [inst |-> panel.id]))
          /\ (lastOp'.op \in {"timer", "timerUnmounted"} => timers' = Tail(timers))
          /\ (lastOp'.op \notin {"undoLater", "timer", "timerUnmounted"} => timers' = timers)
       ]_vars
    /\ ([]<>(timers = <<>>) \/ []<><<TimerFire>>_vars)

\* C17 witness: "Undo in 2s" clicked a second time, at one like and with
\* hidden details.
C17_Witness ==
    /\ lastOp.op = "undoLater"
    /\ Len(timers) = 2 /\ timers[1].inst = timers[2].inst
    /\ IsPanel(panel) /\ panel.likes = 1 /\ ~panel.showDetails

\* C18: a click on "+" raises likes by exactly 1 and leaves showDetails,
\* the instance, activeTab and the timers as they were.
C18_IncAddsOne ==
    [][lastOp'.op = "inc" =>
        /\ IsPanel(panel) /\ IsPanel(panel')
        /\ panel'.likes = panel.likes + 1
        /\ panel'.showDetails = panel.showDetails
        /\ panel'.id = panel.id
        /\ activeTab' = activeTab
        /\ timers' = timers
    ]_vars

\* C18 witness: "+" clicked at likes = 4 with hidden details.
C18_Witness ==
    /\ lastOp.op = "inc"
    /\ IsPanel(panel) /\ panel.likes = 5 /\ ~panel.showDetails

\* C19: the details button flips showDetails and leaves likes, activeTab
\* and the timers as they were, and flipping the new state again gives the
\* state before the click.
C19_ToggleFlips ==
    [][lastOp'.op = "toggle" =>
        /\ IsPanel(panel) /\ IsPanel(panel')
        /\ panel'.showDetails = ~panel.showDetails
        /\ panel'.likes = panel.likes
        /\ activeTab' = activeTab
        /\ timers' = timers
        /\ Render(panel', toggleUpdates) = panel
    ]_vars

\* C19 witness: the details toggled on again at three likes.
C19_Witness ==
    /\ lastOp.op = "toggle"
    /\ IsPanel(panel) /\ panel.likes = 3 /\ panel.showDetails

\* C20: activeTab changes only by a click on a tab, which sets it to the
\* number of the tab clicked; no operation of the panel and no timer
\* changes it.
C20_OnlyTabsSetActiveTab ==
    [][/\ activeTab' # activeTab => lastOp'.op = "select"
       /\ lastOp'.op = "select" =>
             /\ activeTab' = lastOp'.num
             /\ lastOp'.arg = activeTab
       /\ lastOp'.op \in {"toggle", "inc", "tripleInc", "undo", "undoLater",
                          "timer", "timerUnmounted"} => activeTab' = activeTab
    ]_vars

\* C20 witness: the third tab clicked from the last.
C20_Witness ==
    /\ lastOp.op = "select" /\ lastOp.num = 2 /\ lastOp.arg = LastTab
    /\ activeTab = 2

\* C21: in every state exactly one of the four tabs has the class
\* "tab active", the one whose num is activeTab.
C21_OneActiveTab ==
    LET active == {n \in TabNums : TabClassName(n, activeTab) = "tab active"}
    IN  /\ Cardinality(active) = 1
        /\ active = {activeTab}

\* C21 witness: the second tab is the active one after a click from the
\* last tab.
C21_Witness ==
    /\ lastOp.op = "select" /\ lastOp.arg = LastTab /\ activeTab = 1
    /\ TabClassName(1, activeTab) = "tab active"
    /\ TabClassName(LastTab, activeTab) = "tab"

\* C22: with the keyless Tabbed a switch among the tabs 0..2 keeps the
\* TabContent instance with its showDetails and likes and gives it the item
\* of the new tab; a switch from the last tab mounts a new instance in
\* state (true, 0); a switch to the last tab leaves no TabContent.
C22_KeylessKeepsState ==
    [][(~useKey /\ activeTab' # activeTab) =>
        /\ (activeTab <= LastContentTab /\ activeTab' <= LastContentTab) =>
              /\ IsPanel(panel) /\ IsPanel(panel')
              /\ panel'.id = panel.id
              /\ panel'.showDetails = panel.showDetails
              /\ panel'.likes = panel.likes
              /\ panel'.item = IF activeTab' < Len(content)
                               THEN Some(content[activeTab' + 1]) ELSE Undefined
        /\ (activeTab > LastContentTab /\ activeTab' <= LastContentTab) =>
              /\ IsPanel(panel') /\ Initial(panel')
              /\ \A k \in 1..Len(timers') : timers'[k].inst # panel'.id
        /\ activeTab' > LastContentTab => panel' = DifferentContent
    ]_vars

\* C22 witness: the keyless Tabbed after a switch from the first to the
\* second tab, records with different summaries, three likes and hidden
\* details kept.
C22_Witness ==
    /\ ~useKey
    /\ TabSwitch /\ lastOp.arg = 0 /\ activeTab = 1
    /\ HasRecord(1) /\ content[1].summary # content[2].summary
    /\ IsPanel(panel) /\ panel.likes = 3 /\ ~panel.showDetails

C24_ByValueAddsOne ==
    ButtonsShown =>
        LET byFunction == Render(panel, handleTripleIncUpdates(panel.likes))
            byValue == Render(panel, handleTripleIncByValue(panel.likes))
        IN  /\ byFunction.likes = panel.likes + 3
            /\ byValue.likes = panel.likes + 1
            /\ byFunction.showDetails = panel.showDetails
            /\ byValue.showDetails = panel.showDetails
            /\ [byValue EXCEPT !.likes = byFunction.likes] = byFunction

\* C24 witness: "+++" clicked at one like has led to four, where the
\* requests by value lead to two.
C24_Witness ==
    /\ lastOp.op = "tripleInc" /\ lastOp.arg = 1
    /\ IsPanel(panel) /\ panel.likes = 4
    /\ Render([panel EXCEPT !.likes = lastOp.arg],
              handleTripleIncByValue(lastOp.arg)).likes = 2

\* C25: a click on the tab that is active leaves activeTab, what is
\* mounted with its state, and the pending timers as they were.
C25_ActiveTabClickNoOp ==
    [][(lastOp'.op = "select" /\ lastOp'.num = activeTab) =>
        /\ activeTab' = activeTab
        /\ panel' = panel
        /\ timers' = timers
        /\ threw' = threw
    ]_vars

\* C25 witness: the active first tab clicked, at two likes and with a
\* deferred undo pending.
C25_Witness ==
    /\ lastOp.op = "select" /\ lastOp.num = 0 /\ lastOp.arg = 0
    /\ activeTab = 0
    /\ IsPanel(panel) /\ panel.likes = 2
    /\ timers # <<>>

\* C27: "Undo" clicked right after an "Undo", or on a panel in state
\* (true, 0), leaves the panel as it is.
C27_UndoIdempotent ==
    [][(/\ lastOp'.op = "undo"
        /\ IsPanel(panel)
        /\ lastOp.op = "undo" \/ Initial(panel))
       => panel' = panel
    ]_vars

\* C27 witness: "Undo" clicked at likes = 0 with one deferred undo pending.
C27_Witness ==
    /\ lastOp.op = "undo" /\ lastOp.arg = 0
    /\ IsPanel(panel) /\ Initial(panel)
    /\ Len(timers) = 1

\* C26: the showDetails and likes of the mounted panel are those of a panel
\* that was mounted alone and has had the same clicks and the same firings
\* of its own timers since: what was clicked, liked or set to fire on the
\* instances mounted before has no part in them.  Two runs that agree on the
\* operations since the mount both agree with that panel, hence with each
\* other.
C26_HistoryIndependent ==
    IsPanel(panel) =>
        /\ sinceMount # NotMounted
        /\ panel.showDetails = sinceMount.showDetails
        /\ panel.likes = sinceMount.likes

\* C26 witness: the timer of an instance that is gone has fired while the
\* panel mounted after it, on the second tab, has one like, hidden details
\* and a timer of its own waiting.
C26_Witness ==
    /\ lastOp.op = "timerUnmounted"
    /\ activeTab = 1
    /\ IsPanel(panel) /\ panel.likes = 1 /\ ~panel.showDetails
    /\ sinceMount.pending = 1 /\ Len(timers) = 1

====
